---- MODULE Spec2Model ----
(***************************************************************************)
(* Resource-lifecycle handlers of the S3 object resource type, in the two  *)
(* variants of the repository:                                             *)
(*   awscommunity_s3_object/handlers.py  (definitions without prefix)      *)
(*   aws_s3_object/handlers.py           (definitions prefixed aws_)       *)
(* together with the orchestrator that invokes them and the blob-storage   *)
(* backend they call.  One action is one handler invocation.               *)
(***************************************************************************)
EXTENDS Integers, Sequences, FiniteSets, TLC

\* ------------------------------------------------------------------------
\* Bounds of the model
\* ------------------------------------------------------------------------
\* invocations the orchestrator makes for one logical operation
MaxInvocations == 3

\* ------------------------------------------------------------------------
\* Values
\* ------------------------------------------------------------------------
\* Python's None in a string-valued position (an f-string prints it so)
None == "None"

\* Python truthiness of an optional string
Truthy(s) == s # None /\ s # ""

CALLBACK_DELAY_SECONDS == 5

IN_PROGRESS == "IN_PROGRESS"
SUCCESS == "SUCCESS"
FAILED == "FAILED"

\* {"status": OperationStatus.IN_PROGRESS}
CALLBACK_STATUS_IN_PROGRESS == [status |-> IN_PROGRESS]

\* the one bucket of the backend, its keys and the payloads
Bucket1 == "b1"
Keys == {"k1", "k2"}
Undecodable == "\\xff"
TheTag == [Key |-> "team", Value |-> "infra"]
StackTag == [Key |-> "env", Value |-> "prod"]

\* backend error codes a call may fail with
ErrCodes == {"NoSuchKey", "InvalidParameterValue", "RequestLimitExceeded",
             "TotallyUnknownCode"}

\* every code the error classifier names, and two it does not
ClassifierCodes ==
    {"NoSuchKey", "InvalidParameter", "InvalidParameterCombination",
     "InvalidParameterValue", "InvalidTagKey.Malformed", "MissingAction",
     "MissingParameter", "UnknownParameter", "ValidationError",
     "RequestLimitExceeded", "TotallyUnknownCode", "NoSuchBucket"}

\* what a backend call is told to do by the environment: answer, fail with
\* a ClientError of some code, or fail below the API (BotoCoreError)
Responses == {"ok", "local"} \cup ErrCodes

\* ------------------------------------------------------------------------
\* ProgressEvent and the ways a handler invocation can end
\* ------------------------------------------------------------------------
\* ProgressEvent(...) with the library's defaults; optional members are
\* sequences of length 0 (None) or 1
ProgressEvent(st, ec, msg, cb, delay, rm, rms) ==
    [status |-> st, errorCode |-> ec, message |-> msg, callbackContext |-> cb,
     callbackDelaySeconds |-> delay, resourceModel |-> rm,
     resourceModels |-> rms]

\* a handler returned the event ev
Return(ev) == [ret |-> "return", exc |-> None, msg |-> "", ev |-> <<ev>>]
\* a handler fell off its end: Python returns None
ReturnNone == [ret |-> "return", exc |-> None, msg |-> "", ev |-> <<>>]
\* a handler let an exception escape
Raise(e, m) == [ret |-> "raise", exc |-> e, msg |-> m, ev |-> <<>>]

\* outcome of a step inside a try block
Ok(v) == [kind |-> "ok", val |-> v, code |-> None, msg |-> ""]
\* botocore.exceptions.ClientError with ce.response["Error"]["Code"] = c
ClientError(c, api) ==
    [kind |-> "ClientError", val |-> None, code |-> c,
     msg |-> "An error occurred (" \o c \o ") when calling " \o api]
\* any other exception, of class e
Exc(e, m) == [kind |-> e, val |-> None, code |-> None, msg |-> m]

\* Arn as it would be if the bucket were left out
Arn_without_bucket(bucket, key) == "arn:aws:s3:::" \o key

\* f"arn:aws:s3:::{bucket}/{key}"
Arn(bucket, key) == "arn:aws:s3:::" \o bucket \o "/" \o key

\* ------------------------------------------------------------------------
\* The backend: one bucket of objects
\* ------------------------------------------------------------------------
Absent == [present |-> FALSE, visible |-> FALSE, body |-> None, tagging |-> None]

Obj(b, vis, tg) == [present |-> TRUE, visible |-> vis, body |-> b, tagging |-> tg]

\* str(tag) for tag in tags, joined by '&'
RECURSIVE Join(_)
Join(ts) == IF ts = <<>> THEN ""
            ELSE IF Len(ts) = 1 THEN ts[1]
            ELSE ts[1] \o "&" \o Join(Tail(ts))

\* model_tag.Key + "=" + model_tag.Value for each model tag
RECURSIVE get_tags_from_model_tags(_)
get_tags_from_model_tags(model_tags) ==
    IF model_tags = <<>> THEN <<>>
    ELSE <<model_tags[1].Key \o "=" \o model_tags[1].Value>>
         \o get_tags_from_model_tags(Tail(model_tags))

\* tag lists a request can carry
TagLists == {<<>>, <<TheTag>>, <<StackTag, TheTag>>}

\* the TagSet the backend answers for an object written with Tagging = tg
TagSetOf(tg) ==
    IF tg = None THEN <<>>
    ELSE CHOOSE ts \in TagLists : Join(get_tags_from_model_tags(ts)) = tg

\* client.get_object(Bucket, Key): the body, or an error
GetObject(st, bucket, key, resp) ==
    IF bucket = "" \/ key = ""
    THEN Exc("ParamValidationError", "Parameter validation failed")
    ELSE IF resp = "local"
    THEN Exc("EndpointConnectionError", "Could not connect to the endpoint")
    ELSE IF resp # "ok" THEN ClientError(resp, "GetObject")
    ELSE IF bucket # Bucket1 \/ key \notin Keys
            \/ ~st[key].present \/ ~st[key].visible
    THEN ClientError("NoSuchKey", "GetObject")
    ELSE Ok(st[key].body)

\* client.get_object_tagging(Bucket, Key): the TagSet, or an error
GetObjectTagging(st, bucket, key, resp) ==
    IF bucket = "" \/ key = ""
    THEN Exc("ParamValidationError", "Parameter validation failed")
    ELSE IF resp = "local"
    THEN Exc("EndpointConnectionError", "Could not connect to the endpoint")
    ELSE IF resp # "ok" THEN ClientError(resp, "GetObjectTagging")
    ELSE IF bucket # Bucket1 \/ key \notin Keys
            \/ ~st[key].present \/ ~st[key].visible
    THEN ClientError("NoSuchKey", "GetObjectTagging")
    ELSE Ok(TagSetOf(st[key].tagging))

\* client.put_object(Bucket, Key, Body[, Tagging]): the acknowledgment (val
\* tells whether it has a VersionId), or an error
PutObject(bucket, key, resp, versioned) ==
    IF resp = "local"
    THEN Exc("EndpointConnectionError", "Could not connect to the endpoint")
    ELSE IF resp # "ok" THEN ClientError(resp, "PutObject")
    ELSE IF bucket # Bucket1 \/ key \notin Keys
    THEN ClientError("NoSuchBucket", "PutObject")
    ELSE Ok(versioned)

\* client.delete_object(Bucket, Key)
DeleteObject(bucket, key, resp) ==
    IF resp = "local"
    THEN Exc("EndpointConnectionError", "Could not connect to the endpoint")
    ELSE IF resp # "ok" THEN ClientError(resp, "DeleteObject")
    ELSE IF bucket # Bucket1
    THEN ClientError("NoSuchBucket", "DeleteObject")
    ELSE Ok(TRUE)

\* the keys of the bucket's objects in the order the backend lists them
SortedKeys(st) ==
    IF st["k1"].present /\ st["k2"].present THEN <<"k1", "k2">>
    ELSE IF st["k1"].present THEN <<"k1">>
    ELSE IF st["k2"].present THEN <<"k2">>
    ELSE <<>>

\* client.list_objects_v2(Bucket): response['Contents'] (left out of the
\* response when the bucket is empty), or an error
ListObjectsV2(st, bucket, resp) ==
    IF resp = "local"
    THEN Exc("EndpointConnectionError", "Could not connect to the endpoint")
    ELSE IF resp # "ok" THEN ClientError(resp, "ListObjectsV2")
    ELSE IF bucket # Bucket1
    THEN ClientError("NoSuchBucket", "ListObjectsV2")
    ELSE Ok(SortedKeys(st))

\* how the backend answered a call: "ok", the error code of a ClientError, or
\* the class of another exception
AnswerOf(r) == IF r.kind = "ok" THEN "ok"
               ELSE IF r.kind = "ClientError" THEN r.code ELSE r.kind

\* how the backend answered a put_object: with or without a VersionId, or
\* with an error
PutAnswerOf(r) == IF r.kind = "ok"
                  THEN IF r.val THEN "VersionId" ELSE "NoVersionId"
                  ELSE AnswerOf(r)

\* one backend call in the log of an invocation
Call(api, tagging, answer) == [api |-> api, tagging |-> tagging, answer |-> answer]

\* what one handler invocation did: how it ended (res), the request's model as
\* the handler left it (the handlers update it in place), the backend after
\* it, the backend calls it issued, and how its Read sub-step ended (rh)
H(res, model, st, calls, rh) ==
    [res |-> res, model |-> model, st |-> st, calls |-> calls, rh |-> rh]

\* ------------------------------------------------------------------------
\* awscommunity_s3_object/handlers.py
\* ------------------------------------------------------------------------
\* is_callback as it would be if the status of the context were never seen
is_callback_never(callback_context) == FALSE

is_callback(callback_context) ==
    LET status == IF "status" \in DOMAIN callback_context
                  THEN callback_context.status ELSE None
    IN  status = CALLBACK_STATUS_IN_PROGRESS.status

get_session_client(session) ==
    IF session = "SessionProxy" THEN "client" ELSE None

\* get_handler_error_code as it would be if MissingAction were not in its
\* list of codes
get_handler_error_code_shorter(api_error_code) ==
    IF api_error_code = "NoSuchKey" THEN "NotFound"
    ELSE IF api_error_code \in
            {"InvalidParameter", "InvalidParameterCombination",
             "InvalidParameterValue", "InvalidTagKey.Malformed",
             "MissingParameter", "UnknownParameter", "ValidationError"}
    THEN "InvalidRequest"
    ELSE IF api_error_code \in {"RequestLimitExceeded"} THEN "Throttling"
    ELSE "GeneralServiceException"

get_handler_error_code(api_error_code) ==
    IF api_error_code = "NoSuchKey" THEN "NotFound"
    ELSE IF api_error_code \in
            {"InvalidParameter", "InvalidParameterCombination",
             "InvalidParameterValue", "InvalidTagKey.Malformed",
             "MissingAction", "MissingParameter", "UnknownParameter",
             "ValidationError"}
    THEN "InvalidRequest"
    ELSE IF api_error_code \in {"RequestLimitExceeded"} THEN "Throttling"
    ELSE "GeneralServiceException"

progress_event_callback(model) ==
    ProgressEvent(IN_PROGRESS, None, "", <<CALLBACK_STATUS_IN_PROGRESS>>,
                  CALLBACK_DELAY_SECONDS, model, <<>>)

\* progress_event_success as it would be without its first check
progress_event_success_lax(model, models, is_delete_handler, is_list_handler) ==
    IF is_delete_handler /\ is_list_handler
    THEN Raise("ValueError",
               "Specify either is_delete_handler or is_list_handler, not both")
    ELSE IF is_delete_handler
    THEN Return(ProgressEvent(SUCCESS, None, "", <<>>, 0, <<>>, <<>>))
    ELSE IF is_list_handler
    THEN Return(ProgressEvent(SUCCESS, None, "", <<>>, 0, <<>>, models))
    ELSE Return(ProgressEvent(SUCCESS, None, "", <<>>, 0, model, <<>>))

progress_event_success(model, models, is_delete_handler, is_list_handler) ==
    IF model = <<>> /\ (models = <<>> \/ models = <<<<>>>>)
       /\ ~is_delete_handler /\ ~is_list_handler
    THEN Raise("ValueError",
               "Model, or models, or is_delete_handler, or is_list_handler unset")
    ELSE IF is_delete_handler /\ is_list_handler
    THEN Raise("ValueError",
               "Specify either is_delete_handler or is_list_handler, not both")
    ELSE IF is_delete_handler
    THEN Return(ProgressEvent(SUCCESS, None, "", <<>>, 0, <<>>, <<>>))
    ELSE IF is_list_handler
    THEN Return(ProgressEvent(SUCCESS, None, "", <<>>, 0, <<>>, models))
    ELSE Return(ProgressEvent(SUCCESS, None, "", <<>>, 0, model, <<>>))

progress_event_failed(handler_error_code, error_message) ==
    ProgressEvent(FAILED, handler_error_code, "Error: " \o error_message,
                  <<>>, 0, <<>>, <<>>)

\* Tag(Key, Value) for each tag of a TagSet
get_model_tags_from_tags(tags) ==
    [i \in 1..Len(tags) |-> [Key |-> tags[i].Key, Value |-> tags[i].Value]]

\* "tags += ..." on a name the function never binds
get_tags_from_desired_resource_tags(desired_resource_tags) ==
    Exc("UnboundLocalError",
        "local variable 'tags' referenced before assignment")

\* model.Tags is set and not empty
HasTags(model) == model # <<>> /\ model[1].Tags # <<>> /\ model[1].Tags[1] # <<>>

build_tag_list(model, request) ==
    LET stack == IF request.desiredResourceTags # <<>>
                 THEN get_tags_from_desired_resource_tags(
                          request.desiredResourceTags)
                 ELSE Ok(<<>>)
    IN  IF stack.kind # "ok" THEN stack
        ELSE IF HasTags(model)
        THEN Ok(stack.val \o get_tags_from_model_tags(model[1].Tags[1]))
        ELSE Ok(stack.val)

\* upload_s3_helper as it would be if the tag list were also built for stack
\* tags alone
upload_s3_helper_stack_tags(model, request) ==
    LET complete == model # <<>> /\ Truthy(model[1].BucketName)
                    /\ Truthy(model[1].ObjectKey)
                    /\ Truthy(model[1].ObjectContents)
        tags == IF HasTags(model) \/ request.desiredResourceTags # <<>>
                THEN build_tag_list(model, request)
                ELSE Ok(<<>>)
    IN  IF tags.kind # "ok" THEN tags
        ELSE IF ~complete
        THEN Exc("UnboundLocalError",
                 "local variable 'put_object_param' referenced before assignment")
        ELSE Ok([Bucket |-> model[1].BucketName, Key |-> model[1].ObjectKey,
                 Body |-> model[1].ObjectContents,
                 Tags |-> IF HasTags(model) THEN Join(tags.val) ELSE None])

upload_s3_helper(model, request) ==
    LET complete == model # <<>> /\ Truthy(model[1].BucketName)
                    /\ Truthy(model[1].ObjectKey)
                    /\ Truthy(model[1].ObjectContents)
        tags == IF HasTags(model) THEN build_tag_list(model, request)
                ELSE Ok(<<>>)
    IN  IF tags.kind # "ok" THEN tags
        ELSE IF ~complete
        THEN Exc("UnboundLocalError",
                 "local variable 'put_object_param' referenced before assignment")
        ELSE Ok([Bucket |-> model[1].BucketName, Key |-> model[1].ObjectKey,
                 Body |-> model[1].ObjectContents,
                 Tags |-> IF HasTags(model) THEN Join(tags.val) ELSE None])

\* put_object as it would be if an error of the backend call were swallowed
put_object_swallows(s3_params, client, in) ==
    IF client = None
    THEN Exc("AttributeError", "'NoneType' object has no attribute 'put_object'")
    ELSE Ok(TRUE)

\* the backend call of _put_object; its val is "response != None"
put_object(s3_params, client, in) ==
    IF client = None
    THEN Exc("AttributeError", "'NoneType' object has no attribute 'put_object'")
    ELSE LET ack == PutObject(s3_params.Bucket, s3_params.Key, in.put,
                              in.versioned)
         IN  IF ack.kind = "ok" THEN Ok(TRUE) ELSE ack

\* read_handler as it would be if it kept the ObjectContents of the request
read_handler_keeps_contents(session, request, st, in, gse) ==
    LET model == request.desiredResourceState
        model_object_key ==
            IF model # <<>> /\ Truthy(model[1].ObjectKey)
            THEN model[1].ObjectKey ELSE ""
        model_bucket_name ==
            IF model # <<>> /\ Truthy(model[1].BucketName)
            THEN model[1].BucketName ELSE ""
        client == get_session_client(session)
        got == IF client = None
               THEN Exc("AttributeError",
                        "'NoneType' object has no attribute 'get_object'")
               ELSE GetObject(st, model_bucket_name, model_object_key, in.get)
        decoded == IF got.kind = "ok" /\ got.val = Undecodable
                   THEN Exc("UnicodeDecodeError",
                            "'utf-8' codec can't decode byte 0xff")
                   ELSE got
        armed == IF decoded.kind = "ok" /\ model = <<>>
                 THEN Exc("AttributeError",
                          "'NoneType' object has no attribute 'ObjectArn'")
                 ELSE decoded
        model1 == IF armed.kind = "ok"
                  THEN <<[model[1] EXCEPT
                            !.ObjectContents =
                                IF model[1].ObjectContents # None
                                THEN model[1].ObjectContents
                                ELSE decoded.val,
                            !.ObjectArn = Arn(model_bucket_name,
                                              model_object_key)]>>
                  ELSE model
        tagged == IF armed.kind = "ok"
                  THEN GetObjectTagging(st, model_bucket_name,
                                        model_object_key, in.tagging)
                  ELSE armed
        model2 == IF tagged.kind = "ok"
                  THEN <<[model1[1] EXCEPT
                            !.Tags = <<get_model_tags_from_tags(tagged.val)>>]>>
                  ELSE model1
        calls == (IF client # None
                  THEN <<Call("get_object", None, AnswerOf(got))>> ELSE <<>>)
                 \o (IF armed.kind = "ok"
                     THEN <<Call("get_object_tagging", None, AnswerOf(tagged))>>
                     ELSE <<>>)
        res == IF tagged.kind = "ok"
               THEN progress_event_success(model2, <<>>, FALSE, FALSE)
               ELSE IF tagged.kind = "ClientError"
               THEN Return(progress_event_failed(
                               get_handler_error_code(tagged.code), tagged.msg))
               \* the second except clause names
               \* botocore.exceptions.GeneralServiceException
               ELSE IF ~gse
               THEN Raise("AttributeError",
                          "module 'botocore.exceptions' has no attribute 'GeneralServiceException'")
               ELSE Return(progress_event_failed("InternalFailure", tagged.msg))
    IN  H(res, model2, st, calls, <<>>)

read_handler(session, request, st, in, gse) ==
    LET model == request.desiredResourceState
        model_object_key ==
            IF model # <<>> /\ Truthy(model[1].ObjectKey)
            THEN model[1].ObjectKey ELSE ""
        model_bucket_name ==
            IF model # <<>> /\ Truthy(model[1].BucketName)
            THEN model[1].BucketName ELSE ""
        client == get_session_client(session)
        got == IF client = None
               THEN Exc("AttributeError",
                        "'NoneType' object has no attribute 'get_object'")
               ELSE GetObject(st, model_bucket_name, model_object_key, in.get)
        decoded == IF got.kind = "ok" /\ got.val = Undecodable
                   THEN Exc("UnicodeDecodeError",
                            "'utf-8' codec can't decode byte 0xff")
                   ELSE got
        armed == IF decoded.kind = "ok" /\ model = <<>>
                 THEN Exc("AttributeError",
                          "'NoneType' object has no attribute 'ObjectArn'")
                 ELSE decoded
        model1 == IF armed.kind = "ok"
                  THEN <<[model[1] EXCEPT
                            !.ObjectContents = decoded.val,
                            !.ObjectArn = Arn(model_bucket_name,
                                              model_object_key)]>>
                  ELSE model
        tagged == IF armed.kind = "ok"
                  THEN GetObjectTagging(st, model_bucket_name,
                                        model_object_key, in.tagging)
                  ELSE armed
        model2 == IF tagged.kind = "ok"
                  THEN <<[model1[1] EXCEPT
                            !.Tags = <<get_model_tags_from_tags(tagged.val)>>]>>
                  ELSE model1
        calls == (IF client # None
                  THEN <<Call("get_object", None, AnswerOf(got))>> ELSE <<>>)
                 \o (IF armed.kind = "ok"
                     THEN <<Call("get_object_tagging", None, AnswerOf(tagged))>>
                     ELSE <<>>)
        res == IF tagged.kind = "ok"
               THEN progress_event_success(model2, <<>>, FALSE, FALSE)
               ELSE IF tagged.kind = "ClientError"
               THEN Return(progress_event_failed(
                               get_handler_error_code(tagged.code), tagged.msg))
               \* the second except clause names
               \* botocore.exceptions.GeneralServiceException
               ELSE IF ~gse
               THEN Raise("AttributeError",
                          "module 'botocore.exceptions' has no attribute 'GeneralServiceException'")
               ELSE Return(progress_event_failed("InternalFailure", tagged.msg))
    IN  H(res, model2, st, calls, <<>>)

\* status and errorCode of what the Read handler returned
RhStatus(rd) == rd.res.ev[1].status
RhErrorCode(rd) == rd.res.ev[1].errorCode

\* CallbackDecision as it would be if NotFound made create and update poll
\* again
CallbackDecision_polls(rd, is_delete_handler, st) ==
    LET res == IF rd.res.ret = "raise" THEN rd.res
               ELSE IF RhStatus(rd) = SUCCESS
               THEN progress_event_success(rd.model, <<>>, FALSE, FALSE)
               ELSE IF RhErrorCode(rd) # None
               THEN IF RhErrorCode(rd) = "NotFound" /\ is_delete_handler
                    THEN progress_event_success(<<>>, <<>>, TRUE, FALSE)
                    ELSE IF RhErrorCode(rd) = "NotFound"
                    THEN Return(progress_event_callback(rd.model))
                    ELSE ReturnNone
               ELSE Return(progress_event_callback(rd.model))
    IN  H(res, rd.model, st, rd.calls, <<rd.res>>)

\* CallbackDecision as it would be if the confirmed deletion returned the model
CallbackDecision_delete_model(rd, is_delete_handler, st) ==
    LET res == IF rd.res.ret = "raise" THEN rd.res
               ELSE IF RhStatus(rd) = SUCCESS
               THEN progress_event_success(rd.model, <<>>, FALSE, FALSE)
               ELSE IF RhErrorCode(rd) # None
               THEN IF RhErrorCode(rd) = "NotFound" /\ is_delete_handler
                    THEN progress_event_success(rd.model, <<>>, FALSE, FALSE)
                    ELSE IF RhErrorCode(rd) = "NotFound"
                    THEN Return(progress_event_failed(
                                    RhErrorCode(rd), rd.res.ev[1].message))
                    ELSE ReturnNone
               ELSE Return(progress_event_callback(rd.model))
    IN  H(res, rd.model, st, rd.calls, <<rd.res>>)

\* CallbackDecision as it would be if a successful Read made it poll again
CallbackDecision_never_done(rd, is_delete_handler, st) ==
    LET res == IF rd.res.ret = "raise" THEN rd.res
               ELSE IF RhStatus(rd) = SUCCESS
               THEN Return(progress_event_callback(rd.model))
               ELSE IF RhErrorCode(rd) # None
               THEN IF RhErrorCode(rd) = "NotFound" /\ is_delete_handler
                    THEN progress_event_success(<<>>, <<>>, TRUE, FALSE)
                    ELSE IF RhErrorCode(rd) = "NotFound"
                    THEN Return(progress_event_failed(
                                    RhErrorCode(rd), rd.res.ev[1].message))
                    ELSE ReturnNone
               ELSE Return(progress_event_callback(rd.model))
    IN  H(res, rd.model, st, rd.calls, <<rd.res>>)

\* what _callback_helper returns once the Read handler has ended as rd (an
\* exception of the Read handler escapes; the model is the request's, which
\* the Read handler updated)
CallbackDecision(rd, is_delete_handler, st) ==
    LET res == IF rd.res.ret = "raise" THEN rd.res
               ELSE IF RhStatus(rd) = SUCCESS
               THEN progress_event_success(rd.model, <<>>, FALSE, FALSE)
               ELSE IF RhErrorCode(rd) # None
               THEN IF RhErrorCode(rd) = "NotFound" /\ is_delete_handler
                    THEN progress_event_success(<<>>, <<>>, TRUE, FALSE)
                    ELSE IF RhErrorCode(rd) = "NotFound"
                    THEN Return(progress_event_failed(
                                    RhErrorCode(rd), rd.res.ev[1].message))
                    ELSE ReturnNone
               ELSE Return(progress_event_callback(rd.model))
    IN  H(res, rd.model, st, rd.calls, <<rd.res>>)

callback_helper(session, request, model, is_delete_handler, st, in, gse) ==
    CallbackDecision(read_handler(session, request, st, in, gse),
                     is_delete_handler, st)

\* the try block shared by the FRESH branches of create_handler and
\* update_handler
FreshWrite(session, request, st, in) ==
    LET model == request.desiredResourceState
        client == get_session_client(session)
        s3_params == upload_s3_helper(model, request)
        is_uploaded == IF s3_params.kind = "ok"
                       THEN put_object(s3_params.val, client, in)
                       ELSE s3_params
        \* if not is_uploaded: raise Exception("File Failed to upload")
        checked == IF is_uploaded.kind = "ok" /\ ~is_uploaded.val
                   THEN Exc("Exception", "File Failed to upload")
                   ELSE is_uploaded
        issued == s3_params.kind = "ok" /\ client # None
        calls == IF issued
                 THEN <<Call("put_object", s3_params.val.Tags,
                             PutAnswerOf(PutObject(s3_params.val.Bucket,
                                                   s3_params.val.Key, in.put,
                                                   in.versioned)))>>
                 ELSE <<>>
        written == issued /\ is_uploaded.kind = "ok"
        st1 == IF written
               THEN [st EXCEPT ![s3_params.val.Key] =
                        Obj(s3_params.val.Body, in.visible, s3_params.val.Tags)]
               ELSE st
        model1 == IF checked.kind = "ok"
                  THEN <<[model[1] EXCEPT !.ObjectArn =
                            Arn(model[1].BucketName, model[1].ObjectKey)]>>
                  ELSE model
        res == IF checked.kind = "ok"
               THEN Return(progress_event_callback(model1))
               ELSE IF checked.kind = "ClientError"
               THEN Return(progress_event_failed(
                               get_handler_error_code(checked.code), checked.msg))
               ELSE Return(progress_event_failed("InternalFailure", checked.msg))
    IN  H(res, model1, st1, calls, <<>>)

create_handler(session, request, callback_context, st, in, gse) ==
    IF is_callback(callback_context)
    THEN callback_helper(session, request, request.desiredResourceState,
                         FALSE, st, in, gse)
    ELSE FreshWrite(session, request, st, in)

update_handler(session, request, callback_context, st, in, gse) ==
    IF is_callback(callback_context)
    THEN callback_helper(session, request, request.desiredResourceState,
                         FALSE, st, in, gse)
    ELSE FreshWrite(session, request, st, in)

\* the end of delete_handler once client.delete_object was called and ended
\* as deleted
DeleteIssued(deleted, rd, key, st) ==
    H(IF deleted.kind = "ok"
      THEN progress_event_success(<<>>, <<>>, TRUE, FALSE)
      ELSE IF deleted.kind = "ClientError"
      THEN Return(progress_event_failed(get_handler_error_code(deleted.code),
                                        deleted.msg))
      ELSE Return(progress_event_failed("InternalFailure", deleted.msg)),
      rd.model,
      IF deleted.kind = "ok" THEN [st EXCEPT ![key] = Absent] ELSE st,
      rd.calls \o <<Call("delete_object", None, AnswerOf(deleted))>>,
      <<rd.res>>)

\* DeleteAfterRead as it would be if the NotFound of the Read handler were
\* not looked at
DeleteAfterRead_ignores_not_found(rd, session, request, st, in) ==
    LET model == request.desiredResourceState
        has_bucket == model # <<>> /\ Truthy(model[1].BucketName)
        has_key == model # <<>> /\ Truthy(model[1].ObjectKey)
        client == get_session_client(session)
        \* an exception of read_handler lands in this handler's except clauses
        raised == rd.res.ret = "raise"
        not_found == FALSE
        issued == ~raised /\ ~not_found /\ model # <<>>
                  /\ has_bucket /\ has_key /\ client # None
        failure == IF raised THEN Exc(rd.res.exc, rd.res.msg)
                   ELSE IF model = <<>> THEN Ok(FALSE)
                   ELSE IF client = None
                   THEN Exc("AttributeError",
                            "'NoneType' object has no attribute 'delete_object'")
                   ELSE IF ~has_bucket
                   THEN Exc("UnboundLocalError",
                            "local variable 'model_bucket_name' referenced before assignment")
                   ELSE Exc("UnboundLocalError",
                            "local variable 'model_object_key' referenced before assignment")
    IN  IF not_found
        THEN H(Return(progress_event_failed("NotFound", rd.res.ev[1].message)),
               rd.model, st, rd.calls, <<rd.res>>)
        ELSE IF issued
        THEN DeleteIssued(DeleteObject(model[1].BucketName, model[1].ObjectKey,
                                       in.del),
                          rd, model[1].ObjectKey, st)
        ELSE H(IF failure.kind = "ok"
               THEN progress_event_success(<<>>, <<>>, TRUE, FALSE)
               ELSE Return(progress_event_failed("InternalFailure", failure.msg)),
               rd.model, st, rd.calls, <<rd.res>>)

\* the try block of delete_handler once its Read handler has ended as rd
DeleteAfterRead(rd, session, request, st, in) ==
    LET model == request.desiredResourceState
        has_bucket == model # <<>> /\ Truthy(model[1].BucketName)
        has_key == model # <<>> /\ Truthy(model[1].ObjectKey)
        client == get_session_client(session)
        \* an exception of read_handler lands in this handler's except clauses
        raised == rd.res.ret = "raise"
        not_found == ~raised /\ RhErrorCode(rd) = "NotFound"
        issued == ~raised /\ ~not_found /\ model # <<>>
                  /\ has_bucket /\ has_key /\ client # None
        failure == IF raised THEN Exc(rd.res.exc, rd.res.msg)
                   ELSE IF model = <<>> THEN Ok(FALSE)
                   ELSE IF client = None
                   THEN Exc("AttributeError",
                            "'NoneType' object has no attribute 'delete_object'")
                   ELSE IF ~has_bucket
                   THEN Exc("UnboundLocalError",
                            "local variable 'model_bucket_name' referenced before assignment")
                   ELSE Exc("UnboundLocalError",
                            "local variable 'model_object_key' referenced before assignment")
    IN  IF not_found
        THEN H(Return(progress_event_failed("NotFound", rd.res.ev[1].message)),
               rd.model, st, rd.calls, <<rd.res>>)
        ELSE IF issued
        THEN DeleteIssued(DeleteObject(model[1].BucketName, model[1].ObjectKey,
                                       in.del),
                          rd, model[1].ObjectKey, st)
        ELSE H(IF failure.kind = "ok"
               THEN progress_event_success(<<>>, <<>>, TRUE, FALSE)
               ELSE Return(progress_event_failed("InternalFailure", failure.msg)),
               rd.model, st, rd.calls, <<rd.res>>)

delete_handler(session, request, callback_context, st, in, gse) ==
    IF is_callback(callback_context)
    THEN callback_helper(session, request, request.desiredResourceState,
                         TRUE, st, in, gse)
    ELSE DeleteAfterRead(read_handler(session, request, st, in, gse),
                         session, request, st, in)

\* ListedModels as it would be if only the first listed key were projected
ListedModels_first_only(bucket, contents) ==
    [i \in 1..(IF Len(contents) > 1 THEN 1 ELSE Len(contents)) |->
        [BucketName |-> bucket, ObjectKey |-> contents[i],
         ObjectContents |-> None, ObjectArn |-> Arn(bucket, contents[i]),
         Tags |-> <<>>]]

\* ResourceModel(ObjectArn, ObjectKey, BucketName, ObjectContents=None,
\* Tags=None) for each listed key
ListedModels(bucket, contents) ==
    [i \in 1..Len(contents) |->
        [BucketName |-> bucket, ObjectKey |-> contents[i],
         ObjectContents |-> None, ObjectArn |-> Arn(bucket, contents[i]),
         Tags |-> <<>>]]

list_handler(session, request, callback_context, st, in, gse) ==
    LET model == request.desiredResourceState
        has_bucket == model # <<>> /\ Truthy(model[1].BucketName)
        client == get_session_client(session)
        response ==
            IF client = None
            THEN Exc("AttributeError",
                     "'NoneType' object has no attribute 'list_objects_v2'")
            ELSE IF ~has_bucket
            THEN Exc("UnboundLocalError",
                     "local variable 'model_bucket_name' referenced before assignment")
            ELSE ListObjectsV2(st, model[1].BucketName, in.list)
        models == IF response.kind = "ok"
                  THEN <<ListedModels(model[1].BucketName, response.val)>>
                  ELSE <<<<>>>>
        calls == IF client # None /\ has_bucket
                 THEN <<Call("list_objects_v2", None, AnswerOf(response))>>
                 ELSE <<>>
        res == IF response.kind = "ok"
               THEN progress_event_success(<<>>, models, FALSE, TRUE)
               ELSE IF response.kind = "ClientError"
               THEN Return(progress_event_failed(
                               get_handler_error_code(response.code),
                               response.msg))
               ELSE Return(progress_event_failed("InternalFailure",
                                                 response.msg))
    IN  H(res, model, st, calls, <<>>)

\* ------------------------------------------------------------------------
\* aws_s3_object/handlers.py
\* ------------------------------------------------------------------------
aws_is_callback(callback_context) ==
    LET status == IF "status" \in DOMAIN callback_context
                  THEN callback_context.status ELSE None
    IN  status = CALLBACK_STATUS_IN_PROGRESS.status

aws_get_session_client(session) ==
    IF session = "SessionProxy" THEN "client" ELSE None

aws_progress_event_callback(model) ==
    ProgressEvent(IN_PROGRESS, None, "", <<CALLBACK_STATUS_IN_PROGRESS>>,
                  CALLBACK_DELAY_SECONDS, model, <<>>)

aws_progress_event_success(model, models, is_delete_handler, is_list_handler) ==
    IF model = <<>> /\ (models = <<>> \/ models = <<<<>>>>)
       /\ ~is_delete_handler /\ ~is_list_handler
    THEN Raise("ValueError",
               "Model, or models, or is_delete_handler, or is_list_handler unset")
    ELSE IF is_delete_handler /\ is_list_handler
    THEN Raise("ValueError",
               "Specify either is_delete_handler or is_list_handler, not both")
    ELSE IF is_delete_handler
    THEN Return(ProgressEvent(SUCCESS, None, "", <<>>, 0, <<>>, <<>>))
    ELSE IF is_list_handler
    THEN Return(ProgressEvent(SUCCESS, None, "", <<>>, 0, <<>>, models))
    ELSE Return(ProgressEvent(SUCCESS, None, "", <<>>, 0, model, <<>>))

aws_progress_event_failed(handler_error_code, error_message) ==
    ProgressEvent(FAILED, handler_error_code, "Error: " \o error_message,
                  <<>>, 0, <<>>, <<>>)

\* the parameters, or None (an empty sequence) when the model lacks a field
aws_upload_s3_helper(model, request) ==
    IF model # <<>> /\ Truthy(model[1].BucketName)
       /\ Truthy(model[1].ObjectKey) /\ Truthy(model[1].ObjectContents)
    THEN <<[Bucket |-> model[1].BucketName, Key |-> model[1].ObjectKey,
            Body |-> model[1].ObjectContents, Tags |-> None]>>
    ELSE <<>>

\* val is FALSE when "VersionId" is not in the response
aws_put_object(s3_params, client, in) ==
    IF client = None
    THEN Exc("AttributeError", "'NoneType' object has no attribute 'put_object'")
    ELSE IF s3_params = <<>>
    THEN Exc("TypeError", "'NoneType' object is not subscriptable")
    ELSE PutObject(s3_params[1].Bucket, s3_params[1].Key, in.put, in.versioned)

aws_read_handler(session, request, st) ==
    H(Return(ProgressEvent(SUCCESS, None, "", <<>>, 0,
                           request.desiredResourceState, <<>>)),
      request.desiredResourceState, st, <<>>, <<>>)

aws_callback_helper(session, request, model, is_delete_handler, st) ==
    LET rd == aws_read_handler(session, request, st)
        res == IF RhStatus(rd) = SUCCESS
               THEN aws_progress_event_success(model, <<>>, FALSE, FALSE)
               ELSE IF RhErrorCode(rd) # None
               THEN IF RhErrorCode(rd) = "NotFound" /\ is_delete_handler
                    THEN aws_progress_event_success(<<>>, <<>>, TRUE, FALSE)
                    ELSE IF RhErrorCode(rd) = "NotFound"
                    THEN Return(aws_progress_event_failed(
                                    RhErrorCode(rd), rd.res.ev[1].message))
                    ELSE ReturnNone
               ELSE Return(aws_progress_event_callback(model))
    IN  H(res, model, st, rd.calls, <<rd.res>>)

\* the try block of create_handler and update_handler up to the assignment of
\* model.ObjectArn; res is the exception that escapes, if any
aws_write(session, request, st, in) ==
    LET model == request.desiredResourceState
        client == aws_get_session_client(session)
        s3_params == aws_upload_s3_helper(model, request)
        is_uploaded == aws_put_object(s3_params, client, in)
        issued == client # None /\ s3_params # <<>>
        calls == IF issued
                 THEN <<Call("put_object", None, PutAnswerOf(is_uploaded))>>
                 ELSE <<>>
        st1 == IF issued /\ is_uploaded.kind = "ok"
               THEN [st EXCEPT ![s3_params[1].Key] =
                        Obj(s3_params[1].Body, in.visible, None)]
               ELSE st
        done == is_uploaded.kind = "ok" /\ is_uploaded.val
        model1 == IF done
                  THEN <<[model[1] EXCEPT !.ObjectArn =
                            Arn(model[1].BucketName, model[1].ObjectKey)]>>
                  ELSE model
        res == IF done THEN ReturnNone
               ELSE IF is_uploaded.kind = "ok"
               THEN Raise("Exception", "File Failed to upload")
               ELSE IF is_uploaded.kind = "TypeError"
               THEN Raise("InternalFailure",
                          "was not expecting type " \o is_uploaded.msg)
               ELSE Raise(is_uploaded.kind, is_uploaded.msg)
    IN  H(res, model1, st1, calls, <<>>)

aws_create_handler(session, request, callback_context, st, in) ==
    IF aws_is_callback(callback_context)
    THEN aws_callback_helper(session, request, request.desiredResourceState,
                             FALSE, st)
    ELSE LET w == aws_write(session, request, st, in)
         IN  IF w.res.ret = "raise" THEN w
             ELSE H(Return(aws_progress_event_callback(w.model)),
                    w.model, w.st, w.calls, <<>>)

aws_update_handler(session, request, callback_context, st, in) ==
    IF ~aws_is_callback(callback_context)
    THEN aws_callback_helper(session, request, request.desiredResourceState,
                             FALSE, st)
    ELSE LET w == aws_write(session, request, st, in)
             rd == aws_read_handler(
                       session, [request EXCEPT !.desiredResourceState = w.model],
                       w.st)
         IN  IF w.res.ret = "raise" THEN w
             ELSE H(rd.res, w.model, w.st, w.calls, <<rd.res>>)

aws_delete_handler(session, request, callback_context, st) ==
    H(Return(ProgressEvent(IN_PROGRESS, None, "", <<>>, 0, <<>>, <<>>)),
      request.desiredResourceState, st, <<>>, <<>>)

aws_list_handler(session, request, callback_context, st) ==
    H(Return(ProgressEvent(SUCCESS, None, "", <<>>, 0, <<>>, <<<<>>>>)),
      request.desiredResourceState, st, <<>>, <<>>)

\* ------------------------------------------------------------------------
\* The orchestrator, the requests it sends and the backend's answers
\* ------------------------------------------------------------------------
Variants == {"awscommunity", "aws"}
Ops == {"create", "update", "delete", "read", "list"}
Sessions == {"SessionProxy", None}

\* request.desiredResourceState: None, or a ResourceModel
Models ==
    {<<>>} \cup
    {<<[BucketName |-> b, ObjectKey |-> k, ObjectContents |-> c,
        ObjectArn |-> a, Tags |-> t]>> :
        b \in {None, Bucket1}, k \in {None, "k1"}, c \in {None, "c1"},
        a \in {None, "arn:aws:s3:::other/arn"}, t \in {<<>>, <<<<TheTag>>>>}}

Requests ==
    [desiredResourceState : Models, desiredResourceTags : {<<>>, <<StackTag>>}]

\* callback contexts a first invocation can be given
Contexts == {<<>>, CALLBACK_STATUS_IN_PROGRESS, [status |-> SUCCESS]}

\* what the backend holds before the first operation
InitialStores ==
    {[k \in Keys |-> IF k = "k1" THEN o1 ELSE o2] :
        o1 \in {Absent, Obj("c2", TRUE, None), Obj(Undecodable, TRUE, None)},
        o2 \in {Absent, Obj("c2", TRUE, None)}}

\* the backend's answers during one invocation
Calm == [get |-> "ok", tagging |-> "ok", put |-> "ok", del |-> "ok",
         list |-> "ok", versioned |-> TRUE, visible |-> TRUE]
ReadInputs == {[Calm EXCEPT !.get = r] : r \in Responses}
              \cup {[Calm EXCEPT !.tagging = r] : r \in Responses}
PutInputs == {[Calm EXCEPT !.put = r] : r \in Responses}
             \cup {[Calm EXCEPT !.versioned = a, !.visible = b] :
                     a \in BOOLEAN, b \in BOOLEAN}
\* a FRESH delete reads and then deletes
DeleteInputs == ReadInputs
                \cup {[i EXCEPT !.del = r] :
                        i \in {Calm, [Calm EXCEPT !.get = "RequestLimitExceeded"]},
                        r \in Responses}
ListInputs == {[Calm EXCEPT !.list = r] : r \in Responses \cup ClassifierCodes}

\* the answers that matter to an invocation: those of the calls its handler
\* can reach with callback context c
InputsFor(o, v, c) ==
    LET resumed == c = CALLBACK_STATUS_IN_PROGRESS
    IN  IF v = "awscommunity"
        THEN CASE o \in {"create", "update"} ->
                    IF resumed THEN ReadInputs ELSE PutInputs
               [] o = "delete" -> IF resumed THEN ReadInputs ELSE DeleteInputs
               [] o = "read" -> ReadInputs
               [] o = "list" -> ListInputs
        ELSE IF (o = "create" /\ ~resumed) \/ (o = "update" /\ resumed)
             THEN PutInputs ELSE {Calm}

VARIABLES
    hasGSE,      \* the installed botocore defines the name
                 \* botocore.exceptions.GeneralServiceException, which
                 \* read_handler's second except clause looks up whenever an
                 \* exception other than ClientError reaches it; fixed per
                 \* deployment, either value possible
    store,       \* the backend's objects
    phase,       \* "idle", "ready" (an IN_PROGRESS outcome awaits its
                 \* re-invocation) or "done" (the operation ended)
    variant, op, session,   \* the operation being run
    request,     \* the request of the next (ready) or last (done) invocation
    cc,          \* the callback context of the next invocation
    n,           \* invocations made for this operation
    result,      \* how the last invocation ended
    fresh,       \* the last invocation was FRESH
    serial,      \* the operation's first invocation was FRESH
    rh,          \* how the Read sub-step of the last invocation ended
    calls,       \* backend calls of the last invocation
    puts,        \* put_object calls of this operation
    prev         \* history: the operation before this one, kept when it was
                 \* a create run to SUCCESS or an undisturbed awscommunity
                 \* read of a bucket and key; <<>> otherwise

vars == <<hasGSE, store, phase, variant, op, session, request, cc, n, result,
          fresh, serial, rh, calls, puts, prev>>

NoRequest == [desiredResourceState |-> <<>>, desiredResourceTags |-> <<>>]

Init ==
    /\ hasGSE \in BOOLEAN
    /\ store \in InitialStores
    /\ phase = "idle"
    /\ variant = "awscommunity" /\ op = "read" /\ session = None
    /\ request = NoRequest
    /\ cc = <<>>
    /\ n = 0
    /\ result = <<>>
    /\ fresh = TRUE /\ serial = TRUE
    /\ rh = <<>>
    /\ calls = <<>>
    /\ puts = 0
    /\ prev = <<>>

\* the handler the harness dispatches to
Handle(o, v, s, req, c, st, in, gse) ==
    IF v = "awscommunity"
    THEN CASE o = "create" -> create_handler(s, req, c, st, in, gse)
           [] o = "update" -> update_handler(s, req, c, st, in, gse)
           [] o = "delete" -> delete_handler(s, req, c, st, in, gse)
           [] o = "read" -> read_handler(s, req, st, in, gse)
           [] o = "list" -> list_handler(s, req, c, st, in, gse)
    ELSE CASE o = "create" -> aws_create_handler(s, req, c, st, in)
           [] o = "update" -> aws_update_handler(s, req, c, st, in)
           [] o = "delete" -> aws_delete_handler(s, req, c, st)
           [] o = "read" -> aws_read_handler(s, req, st)
           [] o = "list" -> aws_list_handler(s, req, c, st)

\* FRESH: no callback context, or one without the in-progress marker
IsFresh(c) == ~("status" \in DOMAIN c /\ c.status = IN_PROGRESS)

\* the status of an invocation's outcome; None when it returned no event
StatusOf(res) == IF res.ev = <<>> THEN None ELSE res.ev[1].status

NumPuts(cs) == Cardinality({i \in 1..Len(cs) : cs[i].api = "put_object"})

\* what the orchestrator does with the end h of an invocation: an IN_PROGRESS
\* outcome is followed by a re-invocation with the outcome's callback context
\* and model
Record(h, o, v, s, req, c, start) ==
    LET count == IF start THEN 1 ELSE n + 1
        again == StatusOf(h.res) = IN_PROGRESS /\ count < MaxInvocations
        ev == h.res.ev[1]
    IN  /\ store' = h.st
        /\ variant' = v /\ op' = o /\ session' = s
        /\ n' = count
        /\ result' = <<h.res>>
        /\ fresh' = IsFresh(c)
        /\ serial' = IF start THEN IsFresh(c) ELSE serial
        /\ rh' = h.rh
        /\ calls' = h.calls
        /\ puts' = (IF start THEN 0 ELSE puts) + NumPuts(h.calls)
        /\ phase' = IF again THEN "ready" ELSE "done"
        /\ cc' = IF again /\ ev.callbackContext # <<>>
                 THEN ev.callbackContext[1] ELSE <<>>
        /\ request' = IF again
                      THEN [req EXCEPT !.desiredResourceState = ev.resourceModel]
                      ELSE req
        /\ UNCHANGED <<hasGSE, prev>>

\* one invocation of handler o, first (start) or repeated
Invoke(o, v, s, req, c, in, start) ==
    \E h \in {Handle(o, v, s, req, c, store, in, hasGSE)} :
        Record(h, o, v, s, req, c, start)

\* the orchestrator starts operation o or continues it
Step(o) ==
    \/ /\ phase = "idle"
       /\ \E v \in Variants, s \in Sessions, req \in Requests, c \in Contexts :
             \E in \in InputsFor(o, v, c) : Invoke(o, v, s, req, c, in, TRUE)
    \/ /\ phase = "ready" /\ op = o
       /\ \E in \in InputsFor(o, variant, cc) :
             Invoke(o, variant, session, request, cc, in, FALSE)

Create == Step("create")
Update == Step("update")
Delete == Step("delete")
Read == Step("read")
List == Step("list")

\* the backend answered the reads in cs of (bucket, key) from what it holds:
\* no fault was injected
Truthful(cs, st, bucket, key) ==
    \A i \in 1..Len(cs) :
        cs[i].api \in {"get_object", "get_object_tagging"}
            => cs[i].answer = IF bucket = Bucket1 /\ key \in Keys
                                 /\ st[key].present /\ st[key].visible
                              THEN "ok" ELSE "NoSuchKey"

\* what is remembered of the operation that ended
Remembered ==
    LET model == request.desiredResourceState
        valid == session = "SessionProxy" /\ model # <<>>
                 /\ Truthy(model[1].BucketName) /\ Truthy(model[1].ObjectKey)
    IN  IF op = "create" /\ serial /\ valid /\ StatusOf(result[1]) = SUCCESS
        THEN <<[op |-> "create", variant |-> variant,
                BucketName |-> model[1].BucketName,
                ObjectKey |-> model[1].ObjectKey,
                ObjectContents |-> model[1].ObjectContents, res |-> <<>>]>>
        ELSE IF op = "read" /\ variant = "awscommunity" /\ valid
                /\ Truthful(calls, store, model[1].BucketName,
                            model[1].ObjectKey)
        THEN <<[op |-> "read", variant |-> variant,
                BucketName |-> model[1].BucketName,
                ObjectKey |-> model[1].ObjectKey,
                ObjectContents |-> None, res |-> result]>>
        ELSE <<>>

\* the orchestrator drops the operation that ended, with its callback context
Finish ==
    /\ phase = "done"
    /\ prev' = Remembered
    /\ phase' = "idle"
    /\ variant' = "awscommunity" /\ op' = "read" /\ session' = None
    /\ request' = NoRequest
    /\ cc' = <<>>
    /\ n' = 0
    /\ result' = <<>>
    /\ fresh' = TRUE /\ serial' = TRUE
    /\ rh' = <<>>
    /\ calls' = <<>>
    /\ puts' = 0
    /\ UNCHANGED <<hasGSE, store>>

\* the backend makes the objects written so far visible to reads
Propagate ==
    /\ \E k \in Keys : store[k].present /\ ~store[k].visible
    /\ store' = [k \in Keys |-> IF store[k].present
                                THEN [store[k] EXCEPT !.visible = TRUE]
                                ELSE store[k]]
    \* a read made before the change is no longer the last word
    /\ prev' = IF prev # <<>> /\ prev[1].op = "read" THEN <<>> ELSE prev
    /\ UNCHANGED <<hasGSE, phase, variant, op, session, request, cc, n, result,
                   fresh, serial, rh, calls, puts>>

Next == Create \/ Update \/ Delete \/ Read \/ List \/ Finish \/ Propagate

Spec == Init /\ [][Next]_vars

\* ------------------------------------------------------------------------
\* Vocabulary of the properties
\* ------------------------------------------------------------------------
\* an invocation has been made
Ended == result # <<>>
\* how the last invocation ended
Outcome == result[1]
\* the last invocation returned a ProgressEvent
Returned == Ended /\ Outcome.ret = "return" /\ Outcome.ev # <<>>
Event == Outcome.ev[1]
Statuses == {IN_PROGRESS, SUCCESS, FAILED}

\* what the Read sub-step of the last invocation reported: SUCCESS, the kind
\* of its FAILED outcome, "raised", or "no read"
ReadKind ==
    IF rh = <<>> THEN "no read"
    ELSE IF rh[1].ev = <<>> THEN "raised"
    ELSE IF rh[1].ev[1].status = SUCCESS THEN SUCCESS
    ELSE rh[1].ev[1].errorCode

\* the last invocation issued the backend call api
Issued(api) == \E i \in 1..Len(calls) : calls[i].api = api
\* ... and the backend answered it with a
Answered(api, a) ==
    \E i \in 1..Len(calls) : calls[i].api = api /\ calls[i].answer = a

WriteOp == op \in {"create", "update"}
Resumed == Ended /\ ~fresh
Fresh == Ended /\ fresh

C2_Claim ==
    (WriteOp /\ Resumed
     /\ ReadKind \in {"InvalidRequest", "Throttling", "GeneralServiceException",
                      "InternalFailure"})
        => Returned /\ Event.status = FAILED /\ Event.errorCode = ReadKind

\* C3: a RESUMED delete invocation whose Read sub-step still finds the object
\* returns IN_PROGRESS; it does not return SUCCESS while the object exists.
C3_Claim ==
    (op = "delete" /\ Resumed /\ ReadKind = SUCCESS)
        => StatusOf(Outcome) = IN_PROGRESS

\* C4: a RESUMED delete invocation whose Read sub-step reports NotFound
\* returns SUCCESS, and that outcome carries no model and no model list.
C4_DeleteConfirmed ==
    (op = "delete" /\ Resumed /\ ReadKind = "NotFound")
        => /\ Returned
           /\ Event.status = SUCCESS
           /\ Event.resourceModel = <<>>
           /\ Event.resourceModels = <<>>

C4_Witness ==
    /\ op = "delete" /\ Resumed /\ ReadKind = "NotFound"
    /\ request.desiredResourceState # <<>>
    /\ Returned /\ Event.status = SUCCESS

\* C5: a FRESH create or update whose putObject acknowledgment lacks a version
\* identifier returns FAILED, never SUCCESS or IN_PROGRESS, in either variant.
C5_Claim ==
    (WriteOp /\ Fresh /\ Answered("put_object", "NoVersionId"))
        => Returned /\ Event.status = FAILED

\* C6: every invocation returns exactly one outcome whose status is
\* IN_PROGRESS, SUCCESS or FAILED; none returns no value, none lets an
\* exception escape.
C6_Claim ==
    Ended => Returned /\ Event.status \in Statuses

\* the request lets a FRESH create or update reach its putObject call: a
\* session, a complete model and no stack-level tags to merge
Writable ==
    /\ session = "SessionProxy"
    /\ request.desiredResourceTags = <<>>
    /\ request.desiredResourceState # <<>>
    /\ Truthy(request.desiredResourceState[1].BucketName)
    /\ Truthy(request.desiredResourceState[1].ObjectKey)
    /\ Truthy(request.desiredResourceState[1].ObjectContents)

\* C7: in both variants create and update issue putObject exactly when the
\* invocation is FRESH, and issue no mutating backend call when it is RESUMED.
C7_Claim ==
    (WriteOp /\ Ended)
        => /\ Issued("put_object") => fresh
           /\ (fresh /\ Writable) => Issued("put_object")
           /\ ~fresh => ~Issued("put_object") /\ ~Issued("delete_object")

\* C8: over the invocations of one create or update operation that the
\* orchestrator starts FRESH and re-invokes with the callback context of each
\* IN_PROGRESS outcome, putObject is issued at most once.
C8_PutAtMostOnce ==
    (WriteOp /\ serial) => puts <= 1

C8_Witness ==
    /\ op = "create" /\ serial /\ phase = "done" /\ n >= 2 /\ puts = 1

\* a create started FRESH whose write succeeded has been re-invoked, and the
\* backend answered the re-invocation without any fault but "no such key"
CreatePolled ==
    /\ op = "create" /\ serial /\ Resumed /\ n >= 2 /\ puts = 1
    /\ \A i \in 1..Len(calls) : calls[i].answer \in {"ok", "NoSuchKey"}

C10_Claim ==
    (WriteOp /\ Fresh)
        => /\ StatusOf(Outcome) # SUCCESS
           /\ Answered("put_object", "VersionId")
                => /\ Returned
                   /\ Event.status = IN_PROGRESS
                   /\ Event.resourceModel # <<>>
                   /\ Event.resourceModel[1].ObjectArn =
                        Arn(Event.resourceModel[1].BucketName,
                            Event.resourceModel[1].ObjectKey)
                   /\ Event.callbackContext = <<CALLBACK_STATUS_IN_PROGRESS>>
                   /\ Event.callbackDelaySeconds = 5

\* the step is one handler invocation (Finish and Propagate are not)
Invoked == n' # n /\ n' > 0

\* C11: a FRESH delete (awscommunity delete_handler) runs Read before any
\* deleteObject call; when that Read reports NotFound the invocation returns
\* FAILED with kind NotFound, issues no deleteObject call and leaves the
\* backend as it was.
C11_FreshDeleteNotFound ==
    [][(Invoked /\ op' = "delete" /\ fresh')
         => /\ variant' = "awscommunity"
                => /\ rh' # <<>>
                   /\ \A i \in 1..Len(calls') :
                        calls'[i].api = "delete_object"
                            => \E j \in 1..(i - 1) : calls'[j].api = "get_object"
            /\ ReadKind' = "NotFound"
                => /\ Returned'
                   /\ Event'.status = FAILED
                   /\ Event'.errorCode = "NotFound"
                   /\ ~Issued("delete_object")'
                   /\ store' = store]_vars

C11_Witness ==
    /\ op = "delete" /\ Fresh /\ variant = "awscommunity"
    /\ ReadKind = "NotFound" /\ Answered("get_object", "NoSuchKey")
    /\ Returned /\ Event.status = FAILED /\ Event.errorCode = "NotFound"
    /\ store["k2"].present

\* C12: a FRESH delete invocation that issues deleteObject does not return
\* SUCCESS itself; SUCCESS for a delete is returned only by a RESUMED
\* invocation whose Read reports NotFound.
C12_Claim ==
    (op = "delete" /\ Ended)
        => /\ (Fresh /\ Issued("delete_object")) => StatusOf(Outcome) # SUCCESS
           /\ StatusOf(Outcome) = SUCCESS
                => Resumed /\ ReadKind = "NotFound"

\* the operation is a read that ended, made with a valid session right after
\* the remembered operation o, of the same variant, bucket and key, and the
\* backend answered it without a fault
ReadAfter(o) ==
    /\ op = "read" /\ phase = "done" /\ session = "SessionProxy"
    /\ prev # <<>> /\ prev[1].op = o /\ prev[1].variant = variant
    /\ request.desiredResourceState # <<>>
    /\ request.desiredResourceState[1].BucketName = prev[1].BucketName
    /\ request.desiredResourceState[1].ObjectKey = prev[1].ObjectKey
    /\ Truthful(calls, store, prev[1].BucketName, prev[1].ObjectKey)

\* C13: a create run to its terminal outcome (FRESH, then RESUMED with the
\* returned callback context) followed by a read of the same bucket and key
\* yields SUCCESS with a model whose ObjectContents is the contents given to
\* create and whose ObjectArn is arn:aws:s3:::<bucket>/<key>.
C13_Claim ==
    ReadAfter("create")
        => /\ Returned
           /\ Event.status = SUCCESS
           /\ Event.resourceModel # <<>>
           /\ Event.resourceModel[1].ObjectContents = prev[1].ObjectContents
           /\ Event.resourceModel[1].ObjectArn =
                Arn(prev[1].BucketName, prev[1].ObjectKey)

\* the kind C14 gives to a backend error code
KindOf(c) ==
    IF c = "NoSuchKey" THEN "NotFound"
    ELSE IF c = "InvalidParameter" \/ c = "InvalidParameterCombination"
            \/ c = "InvalidParameterValue" \/ c = "InvalidTagKey.Malformed"
            \/ c = "MissingAction" \/ c = "MissingParameter"
            \/ c = "UnknownParameter" \/ c = "ValidationError"
    THEN "InvalidRequest"
    ELSE IF c = "RequestLimitExceeded" THEN "Throttling"
    ELSE "GeneralServiceException"

\* C14: the error classifier gives every backend error code exactly one kind:
\* NoSuchKey is NotFound, the eight parameter and validation codes are
\* InvalidRequest, RequestLimitExceeded is Throttling, and every other code is
\* GeneralServiceException; a FAILED outcome built from a backend error
\* carries the kind of that error's code.
C14_ClassifierTotal ==
    /\ \A c \in ClassifierCodes \cup {"", None} :
          /\ get_handler_error_code(c) = KindOf(c)
          /\ get_handler_error_code(c) \in
                {"NotFound", "InvalidRequest", "Throttling",
                 "GeneralServiceException"}
    /\ (Returned /\ Event.status = FAILED /\ calls # <<>>
        /\ calls[Len(calls)].answer \in ClassifierCodes)
          => Event.errorCode = KindOf(calls[Len(calls)].answer)

C14_Witness ==
    /\ op = "list" /\ Answered("list_objects_v2", "MissingAction")
    /\ Returned /\ Event.status = FAILED
    /\ Event.errorCode = "InvalidRequest"

\* arguments of the success constructor: no model or a model; no list, the
\* empty list or a list of one model
SomeModel ==
    <<[BucketName |-> Bucket1, ObjectKey |-> "k1", ObjectContents |-> "c1",
       ObjectArn |-> Arn(Bucket1, "k1"), Tags |-> <<>>]>>
ModelArgs == {<<>>, SomeModel}
ModelsArgs == {<<>>, <<<<>>>>, <<SomeModel>>}

\* what C15 says of the end r of a call of the success constructor
SuccessShape(r, model, models, is_delete_handler, is_list_handler) ==
    IF model = <<>> /\ models \in {<<>>, <<<<>>>>}
       /\ ~is_delete_handler /\ ~is_list_handler
    THEN r.ret = "raise" /\ r.exc = "ValueError"
    ELSE IF is_delete_handler /\ is_list_handler
    THEN r.ret = "raise" /\ r.exc = "ValueError"
    ELSE /\ r.ret = "return" /\ r.ev # <<>>
         /\ r.ev[1].status = SUCCESS
         /\ r.ev[1].errorCode = None
         /\ r.ev[1].callbackContext = <<>>
         /\ IF is_delete_handler
            THEN r.ev[1].resourceModel = <<>> /\ r.ev[1].resourceModels = <<>>
            ELSE IF is_list_handler
            THEN r.ev[1].resourceModel = <<>> /\ r.ev[1].resourceModels = models
            ELSE r.ev[1].resourceModel = model /\ r.ev[1].resourceModels = <<>>

\* C15: in both variants the success constructor raises when it is given no
\* model, no models and neither flag, raises when both flags are set, and
\* otherwise returns a SUCCESS outcome with one payload shape: nothing for
\* delete-style, the model list for list-style, the single model otherwise;
\* a handler that lets the constructor's error escape had no model to give.
C15_SuccessConstructor ==
    /\ \A m \in ModelArgs, ms \in ModelsArgs, d \in BOOLEAN, l \in BOOLEAN :
          /\ SuccessShape(progress_event_success(m, ms, d, l), m, ms, d, l)
          /\ SuccessShape(aws_progress_event_success(m, ms, d, l), m, ms, d, l)
    /\ (Ended /\ Outcome.exc = "ValueError")
          => request.desiredResourceState = <<>>
    /\ (Returned /\ Event.status = SUCCESS)
          => Event.resourceModel = <<>> \/ Event.resourceModels = <<>>

C15_Witness ==
    /\ Ended /\ Outcome.ret = "raise" /\ Outcome.exc = "ValueError"
    /\ Outcome.msg =
         "Model, or models, or is_delete_handler, or is_list_handler unset"
    /\ ReadKind = SUCCESS

\* a FRESH awscommunity create or update whose request is complete and whose
\* model has tags: the write for which a tag list is built
TaggedWrite ==
    /\ WriteOp /\ Fresh /\ variant = "awscommunity"
    /\ session = "SessionProxy"
    /\ request.desiredResourceState # <<>>
    /\ Truthy(request.desiredResourceState[1].BucketName)
    /\ Truthy(request.desiredResourceState[1].ObjectKey)
    /\ Truthy(request.desiredResourceState[1].ObjectContents)
    /\ request.desiredResourceState[1].Tags = <<<<TheTag>>>>

\* C16: the tag list built for a write is the stack-level tags followed by the
\* model's tags, serialized as key=value entries joined by '&': stack tags
\* {env: prod} with model tags [(team, infra)] are written as
\* env=prod&team=infra, model tags alone as team=infra.
C16_Claim ==
    TaggedWrite
        => \E i \in 1..Len(calls) :
              /\ calls[i].api = "put_object"
              /\ calls[i].tagging =
                    IF request.desiredResourceTags = <<StackTag>>
                    THEN "env=prod&team=infra"
                    ELSE "team=infra"

\* the keys of the objects the backend holds
PresentKeys == {k \in Keys : store[k].present}

\* C17: a list invocation (awscommunity list_handler) that the backend answers
\* returns SUCCESS with exactly one model per listed object, each with
\* ObjectKey, BucketName and ObjectArn = arn:aws:s3:::<bucket>/<key> set and
\* ObjectContents and Tags unset; for an empty bucket it returns SUCCESS with
\* an empty model list, neither FAILED nor an error of the success constructor.
C17_ListProjects ==
    (op = "list" /\ Ended /\ Answered("list_objects_v2", "ok"))
        => /\ Returned
           /\ Event.status = SUCCESS
           /\ Event.resourceModel = <<>>
           /\ Event.resourceModels # <<>>
           /\ LET ms == Event.resourceModels[1]
                  bucket == request.desiredResourceState[1].BucketName
              IN  /\ Len(ms) = Cardinality(PresentKeys)
                  /\ \A k \in PresentKeys :
                        \E i \in 1..Len(ms) : ms[i].ObjectKey = k
                  /\ \A i \in 1..Len(ms) :
                        /\ ms[i].ObjectKey \in PresentKeys
                        /\ ms[i].BucketName = bucket
                        /\ ms[i].ObjectArn =
                             "arn:aws:s3:::" \o bucket \o "/" \o ms[i].ObjectKey
                        /\ ms[i].ObjectContents = None
                        /\ ms[i].Tags = <<>>
                  /\ PresentKeys = {} => Event.resourceModels = <<<<>>>>

C17_Witness ==
    /\ op = "list" /\ variant = "awscommunity"
    /\ Answered("list_objects_v2", "ok")
    /\ PresentKeys = {"k1", "k2"}
    /\ Returned /\ Event.status = SUCCESS
    /\ Len(Event.resourceModels[1]) = 2

\* C18: read (awscommunity read_handler) issues no mutating backend call and
\* leaves the backend as it was, and a read made right after a read of the
\* same bucket and key, with no change of the backend in between and no fault
\* in either, returns the identical outcome with the identical model.
C18_ReadIdempotent ==
    [][(Invoked /\ op' = "read")
         => /\ store' = store
            /\ \A i \in 1..Len(calls') :
                  calls'[i].api \in {"get_object", "get_object_tagging"}
            /\ ReadAfter("read")' => result' = prev'[1].res]_vars

C18_Witness ==
    /\ ReadAfter("read") /\ variant = "awscommunity"
    /\ Answered("get_object_tagging", "ok")
    /\ Returned /\ Event.status = SUCCESS
    /\ prev[1].res = result
    /\ request.desiredResourceState[1].ObjectContents
         # Event.resourceModel[1].ObjectContents

\* the messages of the errors a handler can meet: those of the backend's
\* ClientErrors and those of the exceptions raised below the API or by the
\* handler's own code
OriginalMessages ==
    {ClientError(c, api).msg :
        c \in ClassifierCodes,
        api \in {"GetObject", "GetObjectTagging", "PutObject", "DeleteObject",
                 "ListObjectsV2"}}
    \cup {"Parameter validation failed", "Could not connect to the endpoint",
          "'utf-8' codec can't decode byte 0xff", "File Failed to upload",
          "'NoneType' object has no attribute 'get_object'",
          "'NoneType' object has no attribute 'put_object'",
          "'NoneType' object has no attribute 'delete_object'",
          "'NoneType' object has no attribute 'list_objects_v2'",
          "'NoneType' object has no attribute 'ObjectArn'",
          "local variable 'tags' referenced before assignment",
          "local variable 'put_object_param' referenced before assignment",
          "local variable 'model_bucket_name' referenced before assignment",
          "local variable 'model_object_key' referenced before assignment",
          "module 'botocore.exceptions' has no attribute 'GeneralServiceException'"}

\* C19: every FAILED outcome carries as its message the prefix "Error: "
\* followed by the original error message, with the prefix applied once; this
\* includes the FAILED outcomes that a RESUMED create or update and a FRESH
\* delete build from a failed Read sub-step.
C19_Claim ==
    (Returned /\ Event.status = FAILED)
        => \E m \in OriginalMessages : Event.message = "Error: " \o m

\* the model m has no ObjectArn, or the one derived from its bucket and key
ArnDerived(m) ==
    m.ObjectArn # None
        => m.ObjectArn = "arn:aws:s3:::" \o m.BucketName \o "/" \o m.ObjectKey

\* C20: after any sequence of create, update, delete, read and list
\* invocations (awscommunity handlers), every model carried by an outcome, as
\* its single model or in its model list, that has an ObjectArn has the
\* ObjectArn arn:aws:s3:::<BucketName>/<ObjectKey> of its own bucket and key,
\* also when the desired state came with a different ObjectArn.
C20_ArnInvariant ==
    (Returned /\ variant = "awscommunity")
        => /\ Event.resourceModel # <<>> => ArnDerived(Event.resourceModel[1])
           /\ Event.resourceModels # <<>>
                => \A i \in 1..Len(Event.resourceModels[1]) :
                      ArnDerived(Event.resourceModels[1][i])

C20_Witness ==
    /\ variant = "awscommunity" /\ op = "update" /\ Resumed /\ n = 1
    /\ request.desiredResourceState # <<>>
    /\ request.desiredResourceState[1].ObjectArn = "arn:aws:s3:::other/arn"
    /\ Returned /\ Event.status = SUCCESS
    /\ Event.resourceModel[1].ObjectArn = "arn:aws:s3:::b1/k1"

\* C21: a FRESH create or update (awscommunity handlers) whose putObject call
\* fails with backend error code c returns FAILED with the kind of c in that
\* same invocation: putObject is the invocation's only backend call, no Read
\* follows, and the outcome carries no callback context.
C21_PutFailureSurfaced ==
    \A c \in ClassifierCodes :
        (WriteOp /\ Fresh /\ variant = "awscommunity"
         /\ Answered("put_object", c))
            => /\ Returned
               /\ Event.status = FAILED
               /\ Event.errorCode = KindOf(c)
               /\ Event.callbackContext = <<>>
               /\ Len(calls) = 1
               /\ puts = 1
               /\ rh = <<>>
               /\ phase = "done"

C21_Witness ==
    /\ op = "update" /\ Fresh /\ variant = "awscommunity"
    /\ Answered("put_object", "RequestLimitExceeded")
    /\ Returned /\ Event.status = FAILED /\ Event.errorCode = "Throttling"
    /\ Len(calls) = 1

\* the invocation met a fault that does not come from the backend API: a null
\* session, a model without the fields its handler needs, or an object body
\* that cannot be decoded
LocalFault ==
    LET model == request.desiredResourceState
        has(f) == model # <<>> /\ Truthy(model[1][f])
    IN  /\ Ended
        /\ \/ session = None
           \/ WriteOp /\ Fresh
              /\ ~(has("BucketName") /\ has("ObjectKey")
                   /\ has("ObjectContents"))
           \/ (op \in {"read", "delete"} \/ (WriteOp /\ Resumed))
              /\ ~(has("BucketName") /\ has("ObjectKey"))
           \/ op = "list" /\ ~has("BucketName")
           \/ /\ Answered("get_object", "ok")
              /\ store[model[1].ObjectKey].body = Undecodable

\* C22: a fault that does not originate from the backend API makes create,
\* update, delete, read and list (awscommunity handlers) return FAILED with
\* kind InternalFailure, never SUCCESS, IN_PROGRESS or another kind.
C22_Claim ==
    (variant = "awscommunity" /\ LocalFault)
        => /\ Returned
           /\ Event.status = FAILED
           /\ Event.errorCode = "InternalFailure"

\* C23: when a create or update request (awscommunity handlers) has
\* stack-level tags but its model has no Tags, the FRESH write is issued with
\* no tags at all; a write carries stack-level tags only when the model has
\* Tags too.
C23_StackTagsOmitted ==
    (WriteOp /\ Fresh /\ variant = "awscommunity")
        => /\ (/\ request.desiredResourceTags # <<>>
               /\ ~HasTags(request.desiredResourceState)
               /\ session = "SessionProxy"
               /\ request.desiredResourceState # <<>>
               /\ Truthy(request.desiredResourceState[1].BucketName)
               /\ Truthy(request.desiredResourceState[1].ObjectKey)
               /\ Truthy(request.desiredResourceState[1].ObjectContents))
                => /\ Len(calls) = 1
                   /\ calls[1].api = "put_object"
                   /\ calls[1].tagging = None
           /\ \A i \in 1..Len(calls) :
                 calls[i].tagging \in {"env=prod", "env=prod&team=infra"}
                    => HasTags(request.desiredResourceState)

C23_Witness ==
    /\ op = "create" /\ Fresh /\ variant = "awscommunity"
    /\ request.desiredResourceTags = <<StackTag>>
    /\ ~HasTags(request.desiredResourceState)
    /\ Answered("put_object", "VersionId")
    /\ calls[1].tagging = None
    /\ Returned /\ Event.status = IN_PROGRESS
    /\ store["k1"].tagging = None

\* C24: in both variants an outcome has status IN_PROGRESS exactly when it
\* carries the callback context {status: IN_PROGRESS} and a callback delay of
\* 5; SUCCESS and FAILED outcomes carry no callback context.
C24_Claim ==
    Returned
        => /\ Event.status = IN_PROGRESS
                <=> /\ Event.callbackContext = <<CALLBACK_STATUS_IN_PROGRESS>>
                    /\ Event.callbackDelaySeconds = 5
           /\ Event.status \in {SUCCESS, FAILED}
                => Event.callbackContext = <<>>

\* C25: a FRESH delete (awscommunity delete_handler) issues deleteObject only
\* when its Read sub-step returned SUCCESS; when that Read fails with any
\* kind, no deleteObject call is issued and the outcome is not SUCCESS.
C25_Claim ==
    (op = "delete" /\ Fresh /\ variant = "awscommunity")
        => /\ Issued("delete_object") => ReadKind = SUCCESS
           /\ ReadKind # SUCCESS
                => ~Issued("delete_object") /\ StatusOf(Outcome) # SUCCESS

\* C26: the Read handler (awscommunity) returns SUCCESS or FAILED with a kind,
\* so the poll-again branch of the callback helper is never taken: a RESUMED
\* create, update or delete never returns IN_PROGRESS, and no operation
\* returns IN_PROGRESS more than once; it ends within two invocations.
C26_NoSecondPoll ==
    (Ended /\ variant = "awscommunity")
        => /\ (op = "read" /\ Returned)
                => \/ Event.status = SUCCESS
                   \/ Event.status = FAILED /\ Event.errorCode # None
           /\ (rh # <<>> /\ rh[1].ev # <<>>)
                => \/ rh[1].ev[1].status = SUCCESS
                   \/ /\ rh[1].ev[1].status = FAILED
                      /\ rh[1].ev[1].errorCode # None
           /\ (Resumed /\ op \in {"create", "update", "delete"})
                => StatusOf(Outcome) # IN_PROGRESS
           /\ phase = "ready" => n = 1 /\ fresh
           /\ n <= 2

C26_Witness ==
    /\ variant = "awscommunity" /\ op = "update" /\ serial
    /\ phase = "done" /\ n = 2 /\ Resumed
    /\ ReadKind = "NotFound"
    /\ Returned /\ Event.status = FAILED

====
